---- MODULE Spec2Model ----
(***************************************************************************)
(* CacheORM (src/ORM.py, src/ORMUtils.py): a schema-aware cache kept in a  *)
(* redis store.  Every redis GET/SET is one atomic step; a push is a       *)
(* sequence of such steps run by a caller, so pushes of different callers  *)
(* interleave at the granularity of the redis operations.                  *)
(*                                                                         *)
(* Python values are modelled as records [type, repr]: the runtime type   *)
(* and the text str() gives for the value.  A stored blob is the text      *)
(* str(d).encode() of a list of dicts: the same structure with every value *)
(* replaced by its repr text.                                              *)
(***************************************************************************)
EXTENDS Integers, Sequences, FiniteSets, TLC

\* ------------------------------------------------------------------ bounds
\* a push is only called while fewer than MaxPushes pushes have passed
\* validation (over all names)
MaxPushes == 2

\* the constructor of CacheORM is given at most MaxArgs arguments
MaxArgs == 3

\* the concurrent callers of the CacheORM object
Callers == {"c1", "c2"}

\* ------------------------------------------------------------ Python values
Val(t, r) == [type |-> t, repr |-> r]

PyNone == Val("NoneType", "None")
StrA == Val("str", "'a@x.com'")
StrB == Val("str", "'b@x.com'")
Str30 == Val("str", "'30'")
Int30 == Val("int", "30")
Int1 == Val("int", "1")
BoolTrue == Val("bool", "True")
FloatInf == Val("float", "inf")
Date1 == Val("datetime", "datetime.datetime(2021, 1, 1, 0, 0)")
Date1Str == Val("str", "'2021-01-01 00:00:00'")

\* the values whose repr text is a Python literal: ast.literal_eval gives the
\* value back for these texts and raises ValueError for every other text
\* (inf is a Name node, datetime.datetime(...) a Call node)
Literals == {PyNone, StrA, StrB, Str30, Int30, Int1, BoolTrue, Date1Str}

\* isinstance(v, t): bool is a subclass of int
isinstance(v, t) == v.type = t \/ (v.type = "bool" /\ t = "int")

\* datetime.strftime(v, "%Y-%m-%d %H:%M:%S")
strftime(v) == IF v = Date1 THEN Date1Str ELSE Val("str", "'?'")

\* --------------------------------------------------------------- the codec
\* a key that redis does not hold: GET gives None
Absent == [kind |-> "absent", items |-> <<>>]

\* ORMUtils.serialize_dict on a list of dicts: str(d).encode()
serialize_dict(d) ==
    [kind |-> "list",
     items |-> [i \in 1..Len(d) |-> [f \in DOMAIN d[i] |-> d[i][f].repr]]]

\* ORMUtils.serialize_dict on an index dict: a sequence of entries
\* [key, val], val being a list of texts or one scalar text
serialize_index(d) == [kind |-> "dict", items |-> d]

IsLiteralText(text) == \E v \in Literals : v.repr = text

\* ast.literal_eval accepts the text of the blob
parses(blob) ==
    IF blob.kind = "dict"
    THEN \A i \in 1..Len(blob.items) :
            \A j \in 1..Len(blob.items[i].val.elems) :
                IsLiteralText(blob.items[i].val.elems[j])
    ELSE \A i \in 1..Len(blob.items) : \A f \in DOMAIN blob.items[i] :
            IsLiteralText(blob.items[i][f])

literal_eval(text) == CHOOSE v \in Literals : v.repr = text

\* ORMUtils.deserialize_dict; only used where parses(blob) holds, the
\* ValueError of the other case is raised by the callers' actions
deserialize_dict(blob) ==
    IF blob.kind = "dict" THEN blob.items
    ELSE [i \in 1..Len(blob.items) |->
            [f \in DOMAIN blob.items[i] |-> literal_eval(blob.items[i][f])]]

\* --------------------------------------------------- the cache definitions
\* CacheORM(CacheDefinition("users", email=str, age=int, score=float,
\*          joined=datetime), CacheDefinition("_idx_users", v=int))
def_keys == {"users", "_idx_users"}
UnknownKey == "nonexistent"
Names == def_keys \cup {UnknownKey}

definitions ==
    [n \in def_keys |->
        IF n = "users"
        THEN [email |-> "str", age |-> "int", score |-> "float", joined |-> "datetime"]
        ELSE [v |-> "int"]]

\* the keys of a definition in the order of its keyword arguments
fields(name) ==
    IF name = "users" THEN <<"email", "age", "score", "joined">> ELSE <<"v">>

\* a _dict that leaves the record empty until the arguments fill it
_dict_empty(name) == [k \in {} |-> PyNone]

\* CacheDefinition._dict
_dict(name) == [k \in DOMAIN definitions[name] |-> PyNone]

\* DefinitionIndex.__init__: self.index_key
index_key(name) == "_idx_" \o name

Keys == Names \cup {index_key(n) : n \in Names}

\* the text of the pair (field, location) in an index blob
PairText(f, i) == "('" \o f \o "', " \o ToString(i) \o ")"

\* the keyword arguments the callers pass to push, in call order
PushArgs ==
    [users |-> { << <<"email", StrA>>, <<"age", Int30>>, <<"joined", Date1>> >>,
                 << <<"email", StrB>>, <<"age", BoolTrue>> >>,
                 << <<"email", StrA>>, <<"age", Str30>> >>,
                 << <<"email", StrA>>, <<"nick", StrB>> >>,
                 << <<"score", FloatInf>> >> },
     _idx_users |-> { << <<"v", Int1>> >> },
     nonexistent |-> { << <<"x", Int1>> >> }]

\* the keyword arguments the callers pass to search
SearchArgs ==
    [users |-> { << <<"age", Int30>> >>, << <<"email", StrA>> >> },
     _idx_users |-> { << <<"v", Int1>> >> },
     nonexistent |-> { << <<"x", Int1>> >> }]

VARIABLES
    store,        \* redis: key -> blob or Absent
    pc,           \* where each caller is in its push
    cur,          \* the cache_key of the push a caller is running
    cache_state,  \* the local list cache_state of the push a caller is running
    ret,          \* the last call that ended: its caller and what it returned
                  \* or raised
    calls,        \* history: per name, the records of the pushes that passed
                  \* validation, in call order
    sets,         \* history: per name, the number of Collection SETs done
    overlapped,   \* history: per name, a push was called while another push
                  \* on that name was running
    args,         \* CacheORM.__init__: the arguments the loop has not reached
    self_definitions,  \* CacheORM.__init__: self.definitions
    self_def_keys,     \* CacheORM.__init__: self.def_keys
    ctor          \* CacheORM.__init__: "running", "done" or the exception raised

ctor_vars == <<args, self_definitions, self_def_keys, ctor>>
orm_vars == <<store, pc, cur, cache_state, ret, calls, sets, overlapped>>
vars == <<store, pc, cur, cache_state, ret, calls, sets, overlapped,
          args, self_definitions, self_def_keys, ctor>>

\* the objects a caller passes to the constructor: cache definitions (two
\* of them with the same cache_key) and an object of another class
Definition(cache_key, kwargs) ==
    [class |-> "CacheDefinition", cache_key |-> cache_key, kwargs |-> kwargs]
UsersDefinition == Definition("users", "email=str, age=int, score=float, joined=datetime")
UsersDefinition2 == Definition("users", "name=str")
IdxUsersDefinition == Definition("_idx_users", "v=int")
NotADefinition == [class |-> "str", cache_key |-> "", kwargs |-> ""]
ArgChoices == {UsersDefinition, UsersDefinition2, IdxUsersDefinition, NotADefinition}

\* the sequences over S of length at most n
RECURSIVE SeqsUpTo(_, _)
SeqsUpTo(S, n) ==
    IF n = 0 THEN {<<>>}
    ELSE SeqsUpTo(S, n - 1) \cup
         {Append(q, x) : q \in {r \in SeqsUpTo(S, n - 1) : Len(r) = n - 1}, x \in S}

\* the state of the ORM the other operations are called on: built by
\* CacheORM(UsersDefinition, IdxUsersDefinition)
Constructed ==
    /\ args = <<>>
    /\ self_definitions = <<UsersDefinition, IdxUsersDefinition>>
    /\ self_def_keys = <<"users", "_idx_users">>
    /\ ctor = "done"

NoRet == [op |-> "none", name |-> "", outcome |-> "none", what |-> "", val |-> <<>>]
Return(op, name, what, val) ==
    [op |-> op, name |-> name, outcome |-> "return", what |-> what, val |-> val]
Raise(op, name, what) ==
    [op |-> op, name |-> name, outcome |-> "raise", what |-> what, val |-> <<>>]
\* the call of caller c ended with result
Ended(c, result) == [by |-> c, res |-> result]

Init ==
    /\ store = [k \in Keys |-> Absent]
    /\ pc = [c \in Callers |-> "idle"]
    /\ cur = [c \in Callers |-> ""]
    /\ cache_state = [c \in Callers |-> <<>>]
    /\ ret = Ended("", NoRet)
    /\ calls = [n \in def_keys |-> <<>>]
    /\ sets = [n \in def_keys |-> 0]
    /\ overlapped = [n \in def_keys |-> FALSE]
    /\ Constructed

\* ------------------------------------------------------- CacheORM.__init__
\* the loop without the check of lines 29-31
CacheORM_init_unchecked ==
    /\ ctor = "running"
    /\ IF args = <<>>
       THEN ctor' = "done" /\ UNCHANGED <<args, self_definitions, self_def_keys>>
       ELSE LET arg == Head(args)
            IN  IF arg.class # "CacheDefinition"
                THEN /\ ctor' = "All arguments must CacheDefinition classes"
                     /\ UNCHANGED <<args, self_definitions, self_def_keys>>
                ELSE /\ self_definitions' = Append(self_definitions, arg)
                     /\ self_def_keys' = Append(self_def_keys, arg.cache_key)
                     /\ args' = Tail(args)
                     /\ UNCHANGED ctor
    /\ UNCHANGED orm_vars

\* lines 25-34: one turn of the loop over the arguments, or its end
CacheORM_init ==
    /\ ctor = "running"
    /\ IF args = <<>>
       THEN ctor' = "done" /\ UNCHANGED <<args, self_definitions, self_def_keys>>
       ELSE LET arg == Head(args)
            IN  IF arg.class # "CacheDefinition"
                THEN /\ ctor' = "All arguments must CacheDefinition classes"
                     /\ UNCHANGED <<args, self_definitions, self_def_keys>>
                ELSE IF \E i \in 1..Len(self_def_keys) : self_def_keys[i] = arg.cache_key
                THEN /\ ctor' = "Multiple definitions with same key not allowed"
                     /\ UNCHANGED <<args, self_definitions, self_def_keys>>
                ELSE /\ self_definitions' = Append(self_definitions, arg)
                     /\ self_def_keys' = Append(self_def_keys, arg.cache_key)
                     /\ args' = Tail(args)
                     /\ UNCHANGED ctor
    /\ UNCHANGED orm_vars

\* lines 17-21: a constructor call with any arguments, before its loop
InitCtor ==
    /\ store = [k \in Keys |-> Absent]
    /\ pc = [c \in Callers |-> "idle"]
    /\ cur = [c \in Callers |-> ""]
    /\ cache_state = [c \in Callers |-> <<>>]
    /\ ret = Ended("", NoRet)
    /\ calls = [n \in def_keys |-> <<>>]
    /\ sets = [n \in def_keys |-> 0]
    /\ overlapped = [n \in def_keys |-> FALSE]
    /\ args \in SeqsUpTo(ArgChoices, MaxArgs)
    /\ self_definitions = <<>>
    /\ self_def_keys = <<>>
    /\ ctor = "running"

NextCtor == CacheORM_init

SpecCtor == InitCtor /\ [][NextCtor]_vars

\* ------------------------------------------------------------- CacheORM.push
\* lines 91-101: the type checking loop over kvals, filling app_dict
RECURSIVE type_check(_, _, _)
type_check(kvals, def_repr, app_dict) ==
    IF kvals = <<>> THEN [err |-> "none", app_dict |-> app_dict]
    ELSE LET key == kvals[1][1]
             val == kvals[1][2]
         IN  IF key \notin DOMAIN def_repr
             THEN [err |-> "Unknown key passed", app_dict |-> app_dict]
             ELSE IF ~isinstance(val, def_repr[key])
             THEN [err |-> "Type mismatch with key", app_dict |-> app_dict]
             ELSE type_check(Tail(kvals), def_repr,
                     [app_dict EXCEPT ![key] =
                         IF isinstance(val, "datetime") THEN strftime(val) ELSE val])

\* CacheORM._unpack: the GET of line 216 and what the method gives for it
_unpack(cache_key) ==
    IF cache_key \notin def_keys \/ store[cache_key].kind = "absent"
    THEN [outcome |-> "return", what |-> "False", val |-> <<>>]
    ELSE IF ~parses(store[cache_key])
    THEN [outcome |-> "raise", what |-> "ValueError", val |-> <<>>]
    ELSE [outcome |-> "return", what |-> "list", val |-> deserialize_dict(store[cache_key])]

NumPushes == Len(calls["users"]) + Len(calls["_idx_users"])

\* the unknown cache_key answered as get answers it: False returned, no raise
push_unknown_returns(c, cache_key) ==
    /\ ret' = Ended(c, Return("push", cache_key, "False", <<>>))
    /\ UNCHANGED <<store, pc, cur, cache_state, calls, sets, overlapped>>

\* lines 75-76: push on a cache_key that is not in def_keys
push_unknown(c, cache_key) ==
    /\ ret' = Ended(c, Raise("push", cache_key, "Unknown cache_key"))
    /\ UNCHANGED <<store, pc, cur, cache_state, calls, sets, overlapped>>

\* lines 78-103: the GET of the Collection, the type checking and the append
\* to the local cache_state
push_known(c, cache_key, kvals) ==
    LET unpacked == _unpack(cache_key)
        checked == type_check(kvals, definitions[cache_key], _dict(cache_key))
    IN  IF unpacked.outcome = "raise"
        THEN /\ ret' = Ended(c, Raise("push", cache_key, unpacked.what))
             /\ UNCHANGED <<store, pc, cur, cache_state, calls, sets, overlapped>>
        ELSE IF checked.err # "none"
        THEN /\ ret' = Ended(c, Raise("push", cache_key, checked.err))
             /\ UNCHANGED <<store, pc, cur, cache_state, calls, sets, overlapped>>
        ELSE /\ cache_state' = [cache_state EXCEPT ![c] =
                                    Append(unpacked.val, checked.app_dict)]
             /\ cur' = [cur EXCEPT ![c] = cache_key]
             /\ pc' = [pc EXCEPT ![c] = "set"]
             /\ calls' = [calls EXCEPT ![cache_key] = Append(@, checked.app_dict)]
             /\ overlapped' = [overlapped EXCEPT ![cache_key] =
                    @ \/ \E d \in Callers \ {c} : pc[d] # "idle" /\ cur[d] = cache_key]
             /\ UNCHANGED <<store, sets, ret>>

\* lines 74-103: the call of push up to the append to the local cache_state
push(c, cache_key, kvals) ==
    /\ pc[c] = "idle"
    /\ cache_key \in def_keys => NumPushes < MaxPushes
    /\ IF cache_key \notin def_keys
       THEN push_unknown(c, cache_key)
       ELSE push_known(c, cache_key, kvals)

\* the reverse index of a Collection blob: per location and field an entry
\* keyed by the value, holding the pair (field, location)
full_index(items, name) ==
    [k \in 1..(Len(items) * Len(fields(name))) |->
        LET i == ((k - 1) \div Len(fields(name))) + 1
            f == fields(name)[((k - 1) % Len(fields(name))) + 1]
        IN  [key |-> items[i][f],
             val |-> [t |-> "list", elems |-> <<PairText(f, i - 1)>>]]]

\* a push whose SET of the Collection writes the index with it, in one step
push_set_with_index(c) ==
    /\ pc[c] = "set"
    /\ store' = [store EXCEPT
                    ![cur[c]] = serialize_dict(cache_state[c]),
                    ![index_key(cur[c])] =
                        serialize_index(full_index(serialize_dict(cache_state[c]).items,
                                                   cur[c]))]
    /\ sets' = [sets EXCEPT ![cur[c]] = @ + 1]
    /\ pc' = [pc EXCEPT ![c] = "has_index"]
    /\ UNCHANGED <<cur, cache_state, ret, calls, overlapped>>

\* lines 106-107: serialize and SET the Collection
push_set(c) ==
    /\ pc[c] = "set"
    /\ store' = [store EXCEPT ![cur[c]] = serialize_dict(cache_state[c])]
    /\ sets' = [sets EXCEPT ![cur[c]] = @ + 1]
    /\ pc' = [pc EXCEPT ![c] = "has_index"]
    /\ UNCHANGED <<cur, cache_state, ret, calls, overlapped>>

\* line 113, DefinitionIndex.has_index: the GET of the index key
has_index(c) ==
    /\ pc[c] = "has_index"
    /\ pc' = [pc EXCEPT ![c] = IF store[index_key(cur[c])].kind # "absent"
                                THEN "update" ELSE "create"]
    /\ UNCHANGED <<store, cur, cache_state, ret, calls, sets, overlapped>>

\* the end of a push: what it returns or raises (lines 113-123)
push_ends(c, result) ==
    /\ ret' = Ended(c, result)
    /\ pc' = [pc EXCEPT ![c] = "idle"]
    /\ cur' = [cur EXCEPT ![c] = ""]
    /\ cache_state' = [cache_state EXCEPT ![c] = <<>>]

\* the check of line 115 left out: the push returns True all the same
creation_ignored(name) == Return("push", name, "True", <<>>)

\* line 115-116: create returned False
creation_failed(name) == Raise("push", name, "Error in creating index for definition")
\* line 121-122: update returned False
update_failed(name) == Raise("push", name, "Definition update failure")

\* ----------------------------------------------------- DefinitionIndex.create
\* lines 303-304: the GET of the index key
create_get_index(c) ==
    /\ pc[c] = "create"
    /\ IF store[index_key(cur[c])].kind # "absent"
       THEN push_ends(c, creation_failed(cur[c]))
       ELSE /\ pc' = [pc EXCEPT ![c] = "create_scan"]
            /\ UNCHANGED <<cur, cache_state, ret>>
    /\ UNCHANGED <<store, calls, sets, overlapped>>

\* enumerate(cache): the pairs (count, element), counts from 0
enumerate(cache) == [i \in 1..Len(cache) |-> <<i - 1, cache[i]>>]

\* lines 315-322: `for cache_item, cache_idx in enumerate(cache)` binds
\* cache_item to the count, an int, and the first statement of the body,
\* cache_item.keys(), raises AttributeError; with no element the loop leaves
\* reverse_index the empty dict
reverse_index(cache) ==
    IF Len(enumerate(cache)) > 0
    THEN [raised |-> TRUE, index |-> <<>>]
    ELSE [raised |-> FALSE, index |-> <<>>]

\* lines 306-327: the GET of the Collection, the scan and the SET of the index
create_scan(c) ==
    /\ pc[c] = "create_scan"
    /\ LET name == cur[c]
           cache == store[name]
       IN  IF cache.kind = "absent"
           THEN push_ends(c, creation_failed(name)) /\ UNCHANGED store
           ELSE IF ~parses(cache)
           THEN push_ends(c, Raise("push", name, "ValueError")) /\ UNCHANGED store
           ELSE IF deserialize_dict(cache) = <<>>
           THEN push_ends(c, creation_failed(name)) /\ UNCHANGED store
           ELSE IF reverse_index(deserialize_dict(cache)).raised
           THEN push_ends(c, Raise("push", name, "AttributeError")) /\ UNCHANGED store
           ELSE /\ store' = [store EXCEPT ![index_key(name)] =
                        serialize_index(reverse_index(deserialize_dict(cache)).index)]
                /\ push_ends(c, Return("push", name, "True", <<>>))
    /\ UNCHANGED <<calls, sets, overlapped>>

\* ----------------------------------------------------- DefinitionIndex.update
\* lines 378-383 for one item: the keys of the item against the keys of
\* index_state, a dict given as a sequence of entries [key, val]
RECURSIVE update_keys(_, _, _)
update_keys(index_state, item, item_key_list) ==
    IF item_key_list = <<>> THEN [raised |-> "none", index_state |-> index_state]
    ELSE LET key == Head(item_key_list)
             at == {i \in 1..Len(index_state) : index_state[i].key = "'" \o key \o "'"}
         IN  IF at # {}
             THEN LET i == CHOOSE i \in at : TRUE
                  IN  IF index_state[i].val.t # "list"
                      THEN [raised |-> "AttributeError", index_state |-> index_state]
                      ELSE update_keys(
                              [index_state EXCEPT ![i].val.elems = Append(@, item[key].repr)],
                              item, Tail(item_key_list))
             ELSE update_keys(
                     Append(index_state,
                            [key |-> "'" \o key \o "'",
                             val |-> [t |-> "scalar", elems |-> <<item[key].repr>>]]),
                     item, Tail(item_key_list))

\* lines 369-383: the loop over cache_items
RECURSIVE update_items(_, _, _)
update_items(index_state, cache_items, name) ==
    IF cache_items = <<>> THEN [raised |-> "none", index_state |-> index_state]
    ELSE LET item == Head(cache_items)
             non_allowed_keys == DOMAIN item \ DOMAIN definitions[name]
             done == update_keys(index_state, item, fields(name))
         IN  IF non_allowed_keys # {}
             THEN [raised |-> "Unknown keys in cache_item, cannot cache",
                   index_state |-> index_state]
             ELSE IF done.raised # "none" THEN done
             ELSE update_items(done.index_state, Tail(cache_items), name)

\* lines 361-388: the GET of the index, the loop and the SET of the index.
\* An index_state that is a list (the blob under the index key is a
\* Collection) has no keys(): line 380 raises AttributeError for the first
\* key of the first item
update(c) ==
    /\ pc[c] = "update"
    /\ LET name == cur[c]
           index_state == store[index_key(name)]
       IN  IF index_state.kind = "absent"
           THEN push_ends(c, update_failed(name)) /\ UNCHANGED store
           ELSE IF ~parses(index_state)
           THEN push_ends(c, Raise("push", name, "ValueError")) /\ UNCHANGED store
           ELSE IF index_state.kind = "list"
           THEN push_ends(c, Raise("push", name, "AttributeError")) /\ UNCHANGED store
           ELSE LET done == update_items(deserialize_dict(index_state), cache_state[c], name)
                IN  IF done.raised # "none"
                    THEN push_ends(c, Raise("push", name, done.raised)) /\ UNCHANGED store
                    ELSE /\ store' = [store EXCEPT ![index_key(name)] =
                                          serialize_index(done.index_state)]
                         /\ push_ends(c, Return("push", name, "True", <<>>))
    /\ UNCHANGED <<calls, sets, overlapped>>

\* ------------------------------------------------------------- the reads
\* CacheORM.all: what it gives in the current state of the store
all_(cache_key) ==
    IF cache_key \notin def_keys THEN Raise("all", cache_key, "Unknown key")
    ELSE IF store[cache_key].kind = "absent" THEN Return("all", cache_key, "{}", <<>>)
    ELSE IF ~parses(store[cache_key]) THEN Raise("all", cache_key, "ValueError")
    ELSE Return("all", cache_key, "list", deserialize_dict(store[cache_key]))

\* get with the check of line 53 left out: keys() is called on the False
\* _unpack gives
get_unchecked(cache_key) ==
    IF cache_key \notin def_keys THEN Return("get", cache_key, "False", <<>>)
    ELSE IF _unpack(cache_key).outcome = "raise"
    THEN Raise("get", cache_key, _unpack(cache_key).what)
    ELSE Raise("get", cache_key, "AttributeError")

\* CacheORM.get: a Collection that is stored is a list, and line 56 calls
\* keys() on it
get_(cache_key) ==
    IF cache_key \notin def_keys THEN Return("get", cache_key, "False", <<>>)
    ELSE IF _unpack(cache_key).outcome = "raise"
    THEN Raise("get", cache_key, _unpack(cache_key).what)
    ELSE IF _unpack(cache_key).what = "False" THEN Return("get", cache_key, "False", <<>>)
    ELSE Raise("get", cache_key, "AttributeError")

\* CacheORM.search: line 173 calls keys() on the list all() gave, so lines
\* 174-191 never run
search_(cache_key, kwargs) ==
    IF cache_key \notin def_keys
    THEN Raise("search", cache_key, "CacheDefinition has not been defined")
    ELSE IF all_(cache_key).outcome = "raise"
    THEN Raise("search", cache_key, all_(cache_key).what)
    ELSE IF all_(cache_key).what = "{}"
    THEN Raise("search", cache_key, "Cache does not exist")
    ELSE Raise("search", cache_key, "AttributeError")

\* a get that stores an empty Collection under a key that has none
get_initializes(c, cache_key) ==
    /\ pc[c] = "idle"
    /\ ret' = Ended(c, get_(cache_key))
    /\ store' = [store EXCEPT ![cache_key] =
                    IF @.kind = "absent" THEN serialize_dict(<<>>) ELSE @]
    /\ UNCHANGED <<pc, cur, cache_state, calls, sets, overlapped>>

all(c, cache_key) ==
    /\ pc[c] = "idle"
    /\ ret' = Ended(c, all_(cache_key))
    /\ UNCHANGED <<store, pc, cur, cache_state, calls, sets, overlapped>>

get(c, cache_key) ==
    /\ pc[c] = "idle"
    /\ ret' = Ended(c, get_(cache_key))
    /\ UNCHANGED <<store, pc, cur, cache_state, calls, sets, overlapped>>

search(c, cache_key, kwargs) ==
    /\ pc[c] = "idle"
    /\ ret' = Ended(c, search_(cache_key, kwargs))
    /\ UNCHANGED <<store, pc, cur, cache_state, calls, sets, overlapped>>

Next ==
    \E c \in Callers :
        \/ \E n \in Names : \E kvals \in PushArgs[n] :
              push(c, n, kvals) /\ UNCHANGED ctor_vars
        \/ push_set(c) /\ UNCHANGED ctor_vars
        \/ has_index(c) /\ UNCHANGED ctor_vars
        \/ create_get_index(c) /\ UNCHANGED ctor_vars
        \/ create_scan(c) /\ UNCHANGED ctor_vars
        \/ update(c) /\ UNCHANGED ctor_vars
        \/ \E n \in Names : all(c, n) /\ UNCHANGED ctor_vars
        \/ \E n \in Names : get(c, n) /\ UNCHANGED ctor_vars
        \/ \E n \in Names : \E kwargs \in SearchArgs[n] :
              search(c, n, kwargs) /\ UNCHANGED ctor_vars

Spec == Init /\ [][Next]_vars

\* ------------------------------------------------------------------ helpers
IsPrefix(s, t) == Len(s) <= Len(t) /\ \A i \in 1..Len(s) : s[i] = t[i]
Count(x, s) == Cardinality({i \in 1..Len(s) : s[i] = x})
\* a push on the name is between its call and its end
PushRunning(n) == \E c \in Callers : pc[c] # "idle" /\ cur[c] = n

IndexHolds(index, value, f, i) ==
    /\ index.kind = "dict"
    /\ \E e \in 1..Len(index.items) :
          /\ index.items[e].key = value
          /\ \E j \in 1..Len(index.items[e].val.elems) :
                index.items[e].val.elems[j] = PairText(f, i)

C2_IndexComplete ==
    \A n \in def_keys :
        (sets[n] > 0 /\ ~PushRunning(n))
            => \/ store[index_key(n)].kind = "absent"
               \/ \A i \in 1..Len(store[n].items) : \A f \in DOMAIN store[n].items[i] :
                     IndexHolds(store[index_key(n)], store[n].items[i][f], f, i - 1)

\* C3: Reject-before-mutate. A push on a registered name whose keyword
\* arguments hold a key the definition does not declare, or a value whose
\* runtime type is not the declared type, raises and leaves the store as it
\* was, the Collection and the index of the name included.
Undeclared(n, kvals) == \E i \in 1..Len(kvals) : kvals[i][1] \notin DOMAIN definitions[n]
WrongType(n, kvals) ==
    \E i \in 1..Len(kvals) :
        /\ kvals[i][1] \in DOMAIN definitions[n]
        /\ kvals[i][2].type # definitions[n][kvals[i][1]]

C3_RejectBeforeMutate ==
    [][\A c \in Callers : \A n \in def_keys : \A kvals \in PushArgs[n] :
          (push(c, n, kvals) /\ (Undeclared(n, kvals) \/ WrongType(n, kvals)))
              => /\ ret' = Ended(c, ret'.res) /\ ret'.res.outcome = "raise"
                 /\ store' = store /\ pc'[c] = "idle"]_vars

\* the records of the Collection that have field = value for a pair of kwargs
Matching(n, kwargs) ==
    {r \in {all_(n).val[i] : i \in 1..Len(all_(n).val)} :
        \E j \in 1..Len(kwargs) :
            kwargs[j][1] \in DOMAIN r /\ r[kwargs[j][1]] = kwargs[j][2]}

\* C4: Search correctness. A search on a name whose pushes have ended and
\* whose Collection reads back returns exactly the records that have
\* field = value for at least one pair of the query, each record once.
C4_SearchCorrect ==
    [][\A c \in Callers : \A n \in def_keys : \A kwargs \in SearchArgs[n] :
          (/\ search(c, n, kwargs)
           /\ sets[n] > 0 /\ ~PushRunning(n) /\ all_(n).outcome = "return")
              => /\ ret'.res.outcome = "return"
                 /\ {ret'.res.val[i] : i \in 1..Len(ret'.res.val)} = Matching(n, kwargs)
                 /\ Len(ret'.res.val) = Cardinality(Matching(n, kwargs))]_vars

\* C5: Index lazily created. A search on a registered name with no push
\* before it raises the not-initialized error; a search after exactly one
\* push on the name has ended finds the index and returns without error.
C5_IndexLazilyCreated ==
    [][\A c \in Callers : \A n \in def_keys : \A kwargs \in SearchArgs[n] :
          search(c, n, kwargs)
              => /\ calls[n] = <<>>
                    => ret' = Ended(c, Raise("search", n, "Cache does not exist"))
                 /\ (Len(calls[n]) = 1 /\ sets[n] = 1 /\ ~PushRunning(n))
                    => /\ store[index_key(n)].kind # "absent"
                       /\ ret'.res.outcome = "return"]_vars

\* C6: Writes are serialized per name. Once every push called on a name has
\* written the Collection, the Collection holds the record of each of them.
C6_NoLostPush ==
    \A n \in def_keys :
        (\A c \in Callers : ~(pc[c] = "set" /\ cur[c] = n))
            => \A i \in 1..Len(calls[n]) :
                  Count(serialize_dict(calls[n]).items[i], store[n].items)
                      >= Count(calls[n][i], calls[n])

\* C7: Location immutability. In every step the Collection stored under a
\* name before the step is a prefix of the one stored after it.
C7_CollectionPrefix ==
    [][\A n \in def_keys : IsPrefix(store[n].items, store'[n].items)]_vars

\* C8: Index failure is surfaced. A push that has appended its record and
\* ends in a step of create or update that does not write the index blob of
\* its name ends by raising; so a push returns True only in a step that
\* writes the index blob.
IndexSteps == {"create", "create_scan", "update"}

C8_IndexFailureSurfaced ==
    [][\A c \in Callers :
          (pc[c] \in IndexSteps /\ pc'[c] = "idle")
              => /\ store'[index_key(cur[c])] = store[index_key(cur[c])]
                    => (ret'.by = c /\ ret'.res.outcome = "raise")
                 /\ (ret'.by = c /\ ret'.res.outcome = "return")
                    => store'[index_key(cur[c])].kind = "dict"]_vars

\* a push appended its record, create raised, and the push ended by raising
C8_Witness ==
    \E c \in Callers :
        /\ ret = Ended(c, Raise("push", "users", "AttributeError"))
        /\ pc[c] = "idle"
        /\ store["users"].kind = "list"
        /\ store[index_key("users")].kind = "absent"

\* C9: Unknown schema rejection. A push on a name that is not registered
\* raises the unknown-key error and leaves every key of the store unchanged.
C9_UnknownSchemaRejected ==
    [][\A c \in Callers : \A n \in Names \ def_keys : \A kvals \in PushArgs[n] :
          push(c, n, kvals)
              => /\ ret' = Ended(c, Raise("push", n, "Unknown cache_key"))
                 /\ store' = store]_vars

\* a push on the unregistered name raised, after the store was written to
C9_Witness ==
    \E c \in Callers :
        /\ ret = Ended(c, Raise("push", UnknownKey, "Unknown cache_key"))
        /\ store["users"].kind = "list"
        /\ \A k \in Keys \ def_keys : store[k].kind = "absent"

\* C10: Absence is not an error. For every registered name with no Collection
\* stored, get returns False and all returns the empty mapping; neither raises.
C10_AbsenceNotError ==
    \A n \in def_keys :
        store[n].kind = "absent"
            => /\ get_(n) = Return("get", n, "False", <<>>)
               /\ all_(n) = Return("all", n, "{}", <<>>)

\* a read was called on a registered name that has no Collection stored,
\* while the other registered name has one
C10_Witness ==
    \E c \in Callers :
        /\ store["users"].kind = "absent"
        /\ store["_idx_users"].kind = "list"
        /\ ret \in {Ended(c, Return("get", "users", "False", <<>>)),
                    Ended(c, Return("all", "users", "{}", <<>>))}

NoSharedKey(keys) ==
    \A i, j \in 1..Len(keys) : keys[i] = keys[j] => i = j

C12_SchemaUniqueness ==
    [][/\ (/\ CacheORM_init
           /\ args # <<>>
           /\ Head(args).class = "CacheDefinition"
           /\ \E i \in 1..Len(self_def_keys) : self_def_keys[i] = Head(args).cache_key)
            => /\ ctor' = "Multiple definitions with same key not allowed"
               /\ self_def_keys' = self_def_keys
               /\ self_definitions' = self_definitions
       /\ NoSharedKey(self_def_keys')
       /\ self_def_keys' = [i \in 1..Len(self_definitions') |->
                                self_definitions'[i].cache_key]]_vars

\* the second definition of "users" was refused after two were registered
C12_Witness ==
    /\ ctor = "Multiple definitions with same key not allowed"
    /\ self_def_keys = <<"users", "_idx_users">>
    /\ args # <<>> /\ Head(args) = UsersDefinition2

\* the index of the name reflects the record at the last location of the
\* stored Collection
LastReflected(n) ==
    LET items == store[n].items
    IN  \A f \in DOMAIN items[Len(items)] :
            IndexHolds(store[index_key(n)], items[Len(items)][f], f, Len(items) - 1)

\* C13: Observable staleness window. While a push is past the SET of its
\* Collection and has not ended, and the stored Collection is the one it
\* wrote, the index of the name does not reflect the last record: a reader
\* then reads a Collection whose last record the index read does not show.
C13_StalenessWindow ==
    \A c \in Callers :
        (/\ pc[c] \in {"has_index", "create", "create_scan", "update"}
         /\ store[cur[c]] = serialize_dict(cache_state[c]))
            => ~LastReflected(cur[c])

\* a concurrent reader read the Collection with the new record while the
\* push was before its index step and the index key was still absent
C13_Witness ==
    \E c, d \in Callers :
        /\ c # d
        /\ pc[c] \in {"has_index", "create", "create_scan"}
        /\ cur[c] = "users"
        /\ Len(cache_state[c]) = 2
        /\ ret = Ended(d, Return("all", "users", "list", cache_state[c]))
        /\ store[index_key("users")].kind = "absent"

\* the number of times the pair (f, i) stands under the value in the index
PairCount(index, value, f, i) ==
    IF index.kind # "dict" THEN 0
    ELSE Cardinality({<<e, j>> \in (1..Len(index.items)) \X (1..(MaxPushes + 1)) :
                        /\ index.items[e].key = value
                        /\ j <= Len(index.items[e].val.elems)
                        /\ index.items[e].val.elems[j] = PairText(f, i)})

C15_IndexSound ==
    \A n \in def_keys :
        store[index_key(n)].kind # "absent"
            => /\ store[index_key(n)].kind = "dict"
               /\ \A e \in 1..Len(store[index_key(n)].items) :
                     LET entry == store[index_key(n)].items[e]
                     IN  /\ entry.val.t = "list"
                         /\ \A j \in 1..Len(entry.val.elems) :
                               \E i \in 1..Len(store[n].items) :
                                   \E f \in DOMAIN store[n].items[i] :
                                       /\ entry.val.elems[j] = PairText(f, i - 1)
                                       /\ store[n].items[i][f] = entry.key

\* C16: Index created once, then only updated. A push on a name that is not
\* the first to write its Collection (the pushes running one after the
\* other) finds the index and takes the update path; a push that finds the
\* index never runs the scan of create.
C16_CreatedOnceThenUpdated ==
    [][\A c \in Callers :
          /\ (has_index(c) /\ sets[cur[c]] >= 2 /\ ~overlapped[cur[c]])
                => pc'[c] = "update"
          /\ (has_index(c) /\ store[index_key(cur[c])].kind # "absent")
                => pc'[c] = "update"]_vars

\* C17: create preconditions. create returns False and leaves the store
\* unchanged when the index exists (line 303) or the Collection is absent
\* or empty (lines 307, 312); in every other case it writes the index blob
\* and returns True, so the push that called it returns True.
C17_CreatePreconditions ==
    [][\A c \in Callers :
          /\ (create_get_index(c) /\ store[index_key(cur[c])].kind # "absent")
                => /\ ret' = Ended(c, creation_failed(cur[c]))
                   /\ store' = store
          /\ create_scan(c)
                => IF store[cur[c]].kind = "absent" \/ store[cur[c]].items = <<>>
                   THEN /\ ret' = Ended(c, creation_failed(cur[c]))
                        /\ store' = store
                   ELSE /\ store'[index_key(cur[c])].kind = "dict"
                        /\ ret' = Ended(c, Return("push", cur[c], "True", <<>>))]_vars

\* the keys the keyword arguments name
ArgKeys(kvals) == {kvals[i][1] : i \in 1..Len(kvals)}

\* C18: Every record of a stored Collection has exactly the declared fields
\* of its definition as keys, and a push gives every declared field the
\* caller left out the value None.
C18_RecordsHaveDeclaredFields ==
    [][/\ \A n \in def_keys : \A i \in 1..Len(store'[n].items) :
             DOMAIN store'[n].items[i] = DOMAIN definitions[n]
       /\ \A c \in Callers : \A n \in def_keys : \A kvals \in PushArgs[n] :
             (push(c, n, kvals) /\ pc'[c] = "set")
                => LET record == cache_state'[c][Len(cache_state'[c])]
                   IN  /\ DOMAIN record = DOMAIN definitions[n]
                       /\ \A f \in DOMAIN definitions[n] \ ArgKeys(kvals) :
                             record[f] = PyNone]_vars

\* a record pushed with two of the four declared fields is stored with all
\* four keys, the two left out as None
C18_Witness ==
    /\ store["users"].kind = "list"
    /\ \E i \in 1..Len(store["users"].items) :
          /\ store["users"].items[i].email = StrB.repr
          /\ store["users"].items[i].score = "None"
          /\ store["users"].items[i].joined = "None"

\* C19: Cross-schema isolation. Every step of a push on a name A leaves the
\* Collection blob and the index blob of every other registered name B
\* unchanged.
C19_CrossSchemaIsolation ==
    [][\A c \in Callers : \A B \in def_keys :
          (pc[c] # "idle" /\ cur[c] # B /\ pc'[c] # pc[c])
              => /\ store'[B] = store[B]
                 /\ store'[index_key(B)] = store[index_key(B)]]_vars

\* C20: No rollback on index failure. The SET of a push that passed
\* validation leaves the Collection of its name exactly one record longer,
\* and no later step of the push takes the record back.
C20_NoRollback ==
    [][\A c \in Callers :
          /\ push_set(c)
                => Len(store'[cur[c]].items) = Len(store[cur[c]].items) + 1
          /\ (pc[c] \in {"has_index", "create", "create_scan", "update"}
                /\ pc'[c] # pc[c])
                => store'[cur[c]] = store[cur[c]]]_vars

====
